---- MODULE Spec2Model ----
(***************************************************************************)
(* Model of tools/migrate.py: load_dotenv (the configuration loader) and   *)
(* main (the migration runner).                                            *)
(*                                                                         *)
(* Text is modelled as sequences of one-character strings.  The variable   *)
(* name DATABASE_URL is spelled with the single letter "D" of the model    *)
(* alphabet.  psycopg is an external library: its calls (connect, cursor,  *)
(* execute, commit) either complete or raise an Exception, and its context *)
(* managers behave as documented (cursor closed on exit; connection rolled *)
(* back on an exception, committed otherwise, and closed).                 *)
(***************************************************************************)
EXTENDS Integers, Sequences, FiniteSets, TLC

VARIABLES
    pc,         \* position of main()
    env0,       \* os.environ as it was when the process started
    env,        \* os.environ
    dotenv,     \* the .env file: [exists, readable, lines]
    dirExists,  \* migrations_dir.is_dir()
    entries,    \* names of the entries of the migrations directory
    files,      \* main's local `files`
    idx,        \* position of the for loop in `files` (1-based)
    conn,       \* "none" | "open" | "closed"
    cur,        \* "none" | "open" | "closed"
    txn,        \* server transaction status: "idle" | "intrans" | "inerror"
    exc,        \* an exception is propagating
    raised,     \* the call that raised, "none" if no call raised
    connects,   \* number of psycopg.connect calls
    opened,     \* number of connections currently open
    reads,      \* names of the files read with read_text, in order
    executed,   \* names of the files passed to cur.execute, in order
    failedAt,   \* index of the file whose execute raised, 0 if none
    commitCalls,\* number of conn.commit() calls made by main
    committed,  \* number of transactions committed on the server
    out,        \* lines printed so far
    ret         \* <<>> until main returns, then <<status>>

vars == <<pc, env0, env, dotenv, dirExists, entries, files, idx, conn, cur,
          txn, exc, raised, connects, opened, reads, executed, failedAt, commitCalls,
          committed, out, ret>>

----------------------------------------------------------------------------
(* Bounds *)

MaxLineLen == 5
MaxStemLen == 2
MaxFiles == 3

----------------------------------------------------------------------------
(* Text helpers *)

SeqsUpTo(S, n) == UNION {[1..k -> S] : k \in 0..n}

Whitespace == {" "}

RECURSIVE LStrip(_, _)
LStrip(s, cs) ==
    IF s = <<>> \/ Head(s) \notin cs THEN s ELSE LStrip(Tail(s), cs)

RECURSIVE RStrip(_, _)
RStrip(s, cs) ==
    IF s = <<>> \/ s[Len(s)] \notin cs THEN s
    ELSE RStrip(SubSeq(s, 1, Len(s) - 1), cs)

\* str.strip(chars): removes every leading and trailing character in cs
Strip(s, cs) == RStrip(LStrip(s, cs), cs)

Contains(s, c) == \E i \in 1..Len(s) : s[i] = c

FirstIndex(s, c) == CHOOSE i \in 1..Len(s) : s[i] = c /\ \A j \in 1..(i - 1) : s[j] # c

\* raw.split("=", 1), for a raw that contains "="
SplitKey(raw) == SubSeq(raw, 1, FirstIndex(raw, "=") - 1)
SplitValue(raw) == SubSeq(raw, FirstIndex(raw, "=") + 1, Len(raw))

----------------------------------------------------------------------------
(* load_dotenv *)

DATABASE_URL == <<"D">>

Raw(line) == Strip(line, Whitespace)

\* line 13: the lines the loop skips
Skipped(raw) == raw = <<>> \/ Head(raw) = "#" \/ ~Contains(raw, "=")

ParseKey(raw) == Strip(SplitKey(raw), Whitespace)

TrimmedValue(raw) == Strip(SplitValue(raw), Whitespace)

\* line 17: value.strip().strip("'").strip('"')
StripQuotes(v) == Strip(Strip(v, {"'"}), {"\""})

ParseValue(raw) == StripQuotes(TrimmedValue(raw))

\* line 18 without the `key not in os.environ` test
ShouldSetAlways(key, e) == key # <<>>

\* line 18
ShouldSet(key, e) == key # <<>> /\ key \notin DOMAIN e

SetEnv(e, key, value) ==
    [k \in DOMAIN e \cup {key} |-> IF k = key THEN value ELSE e[k]]

\* one iteration of the loop of load_dotenv
LoadLine(e, line) ==
    LET raw == Raw(line) IN
    IF Skipped(raw) THEN e
    ELSE IF ShouldSet(ParseKey(raw), e)
         THEN SetEnv(e, ParseKey(raw), ParseValue(raw))
         ELSE e

RECURSIVE LoadLines(_, _)
LoadLines(e, lines) ==
    IF lines = <<>> THEN e ELSE LoadLines(LoadLine(e, Head(lines)), Tail(lines))

----------------------------------------------------------------------------
(* Migration files *)

\* code points of the characters used in file names
Ord(c) ==
    CASE c = "-" -> 45
      [] c = "." -> 46
      [] c = "1" -> 49
      [] c = "l" -> 108
      [] c = "q" -> 113
      [] c = "s" -> 115
      [] c = "t" -> 116
      [] c = "x" -> 120

\* str comparison: by code point, a proper prefix is smaller
RECURSIVE StrLess(_, _)
StrLess(a, b) ==
    IF b = <<>> THEN FALSE
    ELSE IF a = <<>> THEN TRUE
    ELSE IF Head(a) # Head(b) THEN Ord(Head(a)) < Ord(Head(b))
    ELSE StrLess(Tail(a), Tail(b))

\* shorter names first, names of one length by code point
PathLessShortlex(a, b) ==
    \/ Len(a) < Len(b)
    \/ Len(a) = Len(b) /\ StrLess(a, b)

\* Path.__lt__ for two paths of the same directory
PathLess(a, b) == StrLess(a, b)

EndsWith(s, suffix) ==
    /\ Len(s) >= Len(suffix)
    /\ SubSeq(s, Len(s) - Len(suffix) + 1, Len(s)) = suffix

\* migrations_dir.glob("*.sql")
Glob(names) == {n \in names : EndsWith(n, <<".", "s", "q", "l">>)}

RECURSIVE sorted(_)
sorted(S) ==
    IF S = {} THEN <<>>
    ELSE LET m == CHOOSE x \in S : \A y \in S \ {x} : PathLess(x, y)
         IN <<m>> \o sorted(S \ {m})

----------------------------------------------------------------------------
(* Inputs *)

LineAlphabet == {"D", "x", "=", "'", "\"", " ", "#"}

Lines == SeqsUpTo(LineAlphabet, MaxLineLen)

SampleLines ==
    { <<"D", "=", "x">>, <<"D", "=">>, <<"x", "=", "D">>,
      <<"#", "D", "=", "x">>, <<"D">>, <<" ", "D", " ", "=", " ", "'", "x", "'">> }

EmptyEnv == [k \in {} |-> <<>>]

EnvChoices ==
    { EmptyEnv,
      [k \in {DATABASE_URL} |-> <<>>],
      [k \in {DATABASE_URL} |-> <<"x">>],
      [k \in {<<"x">>} |-> <<"D">>] }

Absent == [exists |-> FALSE, readable |-> FALSE, lines |-> <<>>]
Unreadable == [exists |-> TRUE, readable |-> FALSE, lines |-> <<>>]
Readable(ls) == [exists |-> TRUE, readable |-> TRUE, lines |-> ls]

\* .env files of the runner specification
MainDotenvs ==
    {Absent, Unreadable}
    \cup {Readable(<<l>>) : l \in {<<"D", "=", "x">>, <<"D", "=">>, <<"x", "=", "D">>}}

\* .env files of the loader specification
LoadDotenvs ==
    {Absent, Unreadable}
    \cup {Readable(<<l>>) : l \in Lines}
    \cup {Readable(<<l1, l2>>) : l1 \in SampleLines, l2 \in SampleLines}

StemAlphabet == {"-", "1"}

Stems == SeqsUpTo(StemAlphabet, MaxStemLen) \ {<<>>}

Entries ==
    {s \o <<".", "s", "q", "l">> : s \in Stems} \cup {<<"1", ".", "t", "x", "t">>}

Directories == {d \in SUBSET Entries : Cardinality(d) <= MaxFiles}

----------------------------------------------------------------------------
(* Output lines *)

Line(kind, name) == [kind |-> kind, name |-> name]

UrlNotSet == Line("DATABASE_URL is not set.", <<>>)
DirNotFound == Line("migrations directory not found", <<>>)
NoFiles == Line("No migration files found.", <<>>)
Running(name) == Line("Running", name)
Failed == Line("Migration failed", <<>>)
Applied == Line("Migrations applied.", <<>>)

----------------------------------------------------------------------------
(* Initial states *)

InitRun ==
    /\ pc = "load_dotenv"
    /\ env = env0
    /\ files = <<>>
    /\ idx = 1
    /\ conn = "none"
    /\ cur = "none"
    /\ txn = "idle"
    /\ exc = FALSE
    /\ raised = "none"
    /\ connects = 0
    /\ opened = 0
    /\ reads = <<>>
    /\ executed = <<>>
    /\ failedAt = 0
    /\ commitCalls = 0
    /\ committed = 0
    /\ out = <<>>
    /\ ret = <<>>

Init ==
    /\ env0 \in EnvChoices
    /\ dotenv \in MainDotenvs
    /\ dirExists \in BOOLEAN
    /\ entries \in Directories
    /\ (~dirExists => entries = {})
    /\ InitRun

InitLoad ==
    /\ env0 \in EnvChoices
    /\ dotenv \in LoadDotenvs
    /\ dirExists = FALSE
    /\ entries = {}
    /\ InitRun

----------------------------------------------------------------------------
(* main *)

inputs == <<env0, dotenv, dirExists, entries>>
dbvars == <<conn, cur, txn, connects, opened, commitCalls, committed>>
loopvars == <<files, idx, reads, executed, failedAt>>

\* `if database_url is None`: an empty value passes
UrlMissingAbsentOnly(e) == DATABASE_URL \notin DOMAIN e

\* `if not database_url`: os.getenv gives None for an absent key
UrlMissing(e) == DATABASE_URL \notin DOMAIN e \/ e[DATABASE_URL] = <<>>

\* the value main returns from its except clause (line 51)
ExceptStatus == 1

\* the value main returns from each failed pre-check (lines 29, 34, 39)
PrecheckStatus == 1

\* line 24, load_dotenv returning normally
LoadDotenv ==
    /\ pc = "load_dotenv"
    /\ dotenv.exists => dotenv.readable
    /\ env' = IF dotenv.exists THEN LoadLines(env, dotenv.lines) ELSE env
    /\ pc' = "getenv"
    /\ UNCHANGED <<inputs, dbvars, loopvars, exc, raised, out, ret>>

\* line 24, read_text (line 11) raising: nothing in main catches it
LoadDotenvRaises ==
    /\ pc = "load_dotenv"
    /\ dotenv.exists /\ ~dotenv.readable
    /\ pc' = "uncaught"
    /\ exc' = TRUE
    /\ raised' = "load_dotenv"
    /\ UNCHANGED <<inputs, env, dbvars, loopvars, out, ret>>

\* lines 26-29
CheckDatabaseUrl ==
    /\ pc = "getenv"
    /\ IF UrlMissing(env)
       THEN /\ out' = Append(out, UrlNotSet)
            /\ ret' = <<PrecheckStatus>>
            /\ pc' = "done"
       ELSE /\ pc' = "is_dir"
            /\ UNCHANGED <<out, ret>>
    /\ UNCHANGED <<inputs, env, dbvars, loopvars, exc, raised>>

\* lines 31-34
CheckMigrationsDir ==
    /\ pc = "is_dir"
    /\ IF ~dirExists
       THEN /\ out' = Append(out, DirNotFound)
            /\ ret' = <<PrecheckStatus>>
            /\ pc' = "done"
       ELSE /\ pc' = "glob"
            /\ UNCHANGED <<out, ret>>
    /\ UNCHANGED <<inputs, env, dbvars, loopvars, exc, raised>>

\* lines 36-39
ListFiles ==
    /\ pc = "glob"
    /\ files' = sorted(Glob(entries))
    /\ IF files' = <<>>
       THEN /\ out' = Append(out, NoFiles)
            /\ ret' = <<PrecheckStatus>>
            /\ pc' = "done"
       ELSE /\ pc' = "connect"
            /\ UNCHANGED <<out, ret>>
    /\ UNCHANGED <<inputs, env, dbvars, idx, reads, executed, failedAt, exc, raised>>

\* line 42, psycopg.connect returning a connection
ConnectOk ==
    /\ pc = "connect"
    /\ connects' = connects + 1
    /\ conn' = "open"
    /\ opened' = opened + 1
    /\ pc' = "cursor"
    /\ UNCHANGED <<inputs, env, cur, txn, commitCalls, committed, loopvars, exc, raised, out, ret>>

\* line 42, psycopg.connect raising
ConnectRaises ==
    /\ pc = "connect"
    /\ connects' = connects + 1
    /\ exc' = TRUE
    /\ raised' = "connect"
    /\ pc' = "except"
    /\ UNCHANGED <<inputs, env, conn, cur, txn, opened, commitCalls, committed,
                   loopvars, out, ret>>

\* line 43, conn.cursor() returning a cursor; line 44, first iteration
CursorOk ==
    /\ pc = "cursor"
    /\ cur' = "open"
    /\ idx' = 1
    /\ pc' = "read_text"
    /\ UNCHANGED <<inputs, env, conn, txn, connects, opened, commitCalls, committed,
                   files, reads, executed, failedAt, exc, raised, out, ret>>

\* line 43, conn.cursor() raising
CursorRaises ==
    /\ pc = "cursor"
    /\ exc' = TRUE
    /\ raised' = "cursor"
    /\ pc' = "conn_exit"
    /\ UNCHANGED <<inputs, env, dbvars, loopvars, out, ret>>

\* line 45, read_text returning the file's text
ReadTextOk ==
    /\ pc = "read_text"
    /\ reads' = Append(reads, files[idx])
    /\ pc' = "print_running"
    /\ UNCHANGED <<inputs, env, dbvars, files, idx, executed, failedAt, exc, raised, out, ret>>

\* line 45, read_text raising
ReadTextRaises ==
    /\ pc = "read_text"
    /\ reads' = Append(reads, files[idx])
    /\ exc' = TRUE
    /\ raised' = "read_text"
    /\ pc' = "cursor_exit"
    /\ UNCHANGED <<inputs, env, dbvars, files, idx, executed, failedAt, out, ret>>

\* line 46
PrintRunning ==
    /\ pc = "print_running"
    /\ out' = Append(out, Running(files[idx]))
    /\ pc' = "execute"
    /\ UNCHANGED <<inputs, env, dbvars, loopvars, exc, raised, ret>>

\* a loop that stops one file early
NextIterationShort(i, fs) == IF i + 1 < Len(fs) THEN "read_text" ELSE "cursor_exit"

\* the for statement of line 44 after an iteration
NextIteration(i, fs) == IF i < Len(fs) THEN "read_text" ELSE "cursor_exit"

\* line 47, cur.execute returning; line 44, next iteration or end of loop
ExecuteOk ==
    /\ pc = "execute"
    /\ executed' = Append(executed, files[idx])
    /\ txn' = "intrans"
    /\ idx' = idx + 1
    /\ pc' = NextIteration(idx, files)
    /\ UNCHANGED <<inputs, env, conn, cur, connects, opened, commitCalls, committed,
                   files, reads, failedAt, exc, raised, out, ret>>

\* line 47, cur.execute raising
ExecuteRaises ==
    /\ pc = "execute"
    /\ executed' = Append(executed, files[idx])
    /\ failedAt' = idx
    /\ txn' = "inerror"
    /\ exc' = TRUE
    /\ raised' = "execute"
    /\ pc' = "cursor_exit"
    /\ UNCHANGED <<inputs, env, conn, cur, connects, opened, commitCalls, committed,
                   files, idx, reads, out, ret>>

\* leaving the cursor's scope without reaching line 48
CursorExitSkipsCommit ==
    /\ pc = "cursor_exit"
    /\ cur' = "closed"
    /\ pc' = "conn_exit"
    /\ UNCHANGED <<inputs, env, conn, txn, connects, opened, commitCalls, committed,
                   loopvars, exc, raised, out, ret>>

\* leaving the cursor's scope and reaching line 48 although an exception propagates
CursorExitCommitsAnyway ==
    /\ pc = "cursor_exit"
    /\ cur' = "closed"
    /\ pc' = "commit"
    /\ UNCHANGED <<inputs, env, conn, txn, connects, opened, commitCalls, committed,
                   loopvars, exc, raised, out, ret>>

\* line 43, leaving `with conn.cursor() as cur`: the cursor is closed
CursorExit ==
    /\ pc = "cursor_exit"
    /\ cur' = "closed"
    /\ pc' = IF exc THEN "conn_exit" ELSE "commit"
    /\ UNCHANGED <<inputs, env, conn, txn, connects, opened, commitCalls, committed,
                   loopvars, exc, raised, out, ret>>

\* line 48, conn.commit() returning
CommitOk ==
    /\ pc = "commit"
    /\ commitCalls' = commitCalls + 1
    /\ committed' = IF txn = "intrans" THEN committed + 1 ELSE committed
    /\ txn' = "idle"
    /\ pc' = "conn_exit"
    /\ UNCHANGED <<inputs, env, conn, cur, connects, opened, loopvars, exc, raised, out, ret>>

\* line 48, conn.commit() raising
CommitRaises ==
    /\ pc = "commit"
    /\ commitCalls' = commitCalls + 1
    /\ txn' = "inerror"
    /\ exc' = TRUE
    /\ raised' = "commit"
    /\ pc' = "conn_exit"
    /\ UNCHANGED <<inputs, env, conn, cur, connects, opened, committed, loopvars,
                   out, ret>>

\* a connection closed only when its scope is left normally
ClosesOnExitUnlessRaising(raising) == ~raising

\* whether leaving the connection's scope closes the connection
ClosesOnExit(raising) == TRUE

\* line 42, leaving `with psycopg.connect(...) as conn`: roll back when an
\* exception is propagating, commit what is still open otherwise, then close
ConnExit ==
    /\ pc = "conn_exit"
    /\ committed' = IF ~exc /\ txn = "intrans" THEN committed + 1 ELSE committed
    /\ txn' = "idle"
    /\ IF ClosesOnExit(exc)
       THEN conn' = "closed" /\ opened' = opened - 1
       ELSE UNCHANGED <<conn, opened>>
    /\ pc' = IF exc THEN "except" ELSE "success"
    /\ UNCHANGED <<inputs, env, cur, connects, commitCalls, loopvars, exc, raised, out, ret>>

\* lines 49-51
Except ==
    /\ pc = "except"
    /\ exc' = FALSE
    /\ UNCHANGED raised
    /\ out' = Append(out, Failed)
    /\ ret' = <<ExceptStatus>>
    /\ pc' = "done"
    /\ UNCHANGED <<inputs, env, dbvars, loopvars>>

\* lines 53-54
Success ==
    /\ pc = "success"
    /\ out' = Append(out, Applied)
    /\ ret' = <<0>>
    /\ pc' = "done"
    /\ UNCHANGED <<inputs, env, dbvars, loopvars, exc, raised>>

Next ==
    \/ LoadDotenv
    \/ LoadDotenvRaises
    \/ CheckDatabaseUrl
    \/ CheckMigrationsDir
    \/ ListFiles
    \/ ConnectOk
    \/ ConnectRaises
    \/ CursorOk
    \/ CursorRaises
    \/ ReadTextOk
    \/ ReadTextRaises
    \/ PrintRunning
    \/ ExecuteOk
    \/ ExecuteRaises
    \/ CursorExit
    \/ CommitOk
    \/ CommitRaises
    \/ ConnExit
    \/ Except
    \/ Success

Spec == Init /\ [][Next]_vars

\* the loader on its own, over every line up to MaxLineLen
NextLoad ==
    \/ LoadDotenv
    \/ LoadDotenvRaises

SpecLoad == InitLoad /\ [][NextLoad]_vars

TypeOK ==
    /\ pc \in {"load_dotenv", "uncaught", "getenv", "is_dir", "glob", "connect",
               "cursor", "read_text", "print_running", "execute", "cursor_exit",
               "commit", "conn_exit", "except", "success", "done"}
    /\ conn \in {"none", "open", "closed"}
    /\ cur \in {"none", "open", "closed"}
    /\ txn \in {"idle", "intrans", "inerror"}
    /\ exc \in BOOLEAN
    /\ raised \in {"none", "load_dotenv", "connect", "cursor", "read_text", "execute",
                  "commit"}
    /\ ret \in {<<>>, <<0>>, <<1>>}
    /\ idx \in 1..(Len(files) + 1)
    /\ failedAt \in 0..Len(files)

----------------------------------------------------------------------------
(* Properties *)

Terminated == pc \in {"done", "uncaught"}

Printed(l) == \E i \in 1..Len(out) : out[i] = l

\* every file of the directory that matches was executed and none raised
AllExecutedOk ==
    /\ Glob(entries) # {}
    /\ Len(executed) = Cardinality(Glob(entries))
    /\ {executed[i] : i \in 1..Len(executed)} = Glob(entries)
    /\ failedAt = 0

\* C1 as stated: when every migration file executed successfully, the
\* transaction is committed exactly once and the exit status is 0.
C1_CommittedOnceAndZero ==
    (pc = "done" /\ AllExecutedOk) => (committed = 1 /\ ret = <<0>>)

\* C1 amended: when every migration file executed successfully, conn.commit()
\* is called exactly once; the transaction is committed exactly once and the
\* exit status is 0 when that call returns, and nothing is committed and the
\* exit status is 1 when it raises.
C1_CommitCalledOnce ==
    (pc = "done" /\ AllExecutedOk) =>
        /\ commitCalls = 1
        /\ raised \in {"none", "commit"}
        /\ (raised = "none") => (committed = 1 /\ ret = <<0>>)
        /\ (raised = "commit") => (committed = 0 /\ ret = <<1>>)

C1_Witness ==
    /\ pc = "done"
    /\ AllExecutedOk
    /\ Len(executed) >= 2
    /\ committed = 1
    /\ ret = <<0>>

\* C2: when the execution of a file raises, no commit is issued, no later
\* file is read or executed, "Migrations applied." is never printed and the
\* exit status is 1.
C2_FailureStopsRun ==
    (failedAt # 0) =>
        /\ commitCalls = 0
        /\ committed = 0
        /\ Len(reads) = failedAt
        /\ Len(executed) = failedAt
        /\ ~Printed(Applied)
        /\ (pc = "done" => ret = <<1>>)

C2_Witness ==
    /\ pc = "done"
    /\ failedAt # 0
    /\ failedAt < Cardinality(Glob(entries))

\* C3: exit status 0 only when a connection was opened, every discovered
\* file was executed without error and the commit completed; a failure while
\* connecting, reading, executing or committing gives exit status 1.
C3_ZeroOnlyWhenApplied ==
    /\ (ret = <<0>>) =>
           /\ connects = 1
           /\ conn # "none"
           /\ AllExecutedOk
           /\ raised = "none"
           /\ commitCalls = 1
           /\ committed = 1
    /\ (pc = "done" /\ raised \in {"connect", "cursor", "read_text", "execute", "commit"})
           => (ret = <<1>>)

C3_Witness ==
    /\ pc = "done"
    /\ raised = "commit"
    /\ Len(executed) >= 2
    /\ ret = <<1>>

\* lexicographic order of two names by code point, stated without recursion
LexBefore(a, b) ==
    \E k \in 1..(Len(a) + 1) :
        /\ k <= Len(b)
        /\ \A j \in 1..(k - 1) : a[j] = b[j]
        /\ (k = Len(a) + 1 \/ Ord(a[k]) < Ord(b[k]))

\* C4: the files are executed in the lexicographic order of their names:
\* the i-th executed file is the matching file with exactly i-1 matching
\* files before it, so none is executed twice, and a run that succeeds
\* has executed them all.
C4_ExecutionOrder ==
    /\ \A i \in 1..Len(executed) :
           /\ executed[i] \in Glob(entries)
           /\ Cardinality({n \in Glob(entries) : LexBefore(n, executed[i])}) = i - 1
    /\ (ret = <<0>>) => (Len(executed) = Cardinality(Glob(entries)))

C4_Witness ==
    /\ ret = <<0>>
    /\ Len(executed) = 3
    /\ \E i \in 1..2 : Len(executed[i]) > Len(executed[i + 1])

UrlSetNonEmpty == DATABASE_URL \in DOMAIN env /\ Len(env[DATABASE_URL]) > 0

PrechecksPass == UrlSetNonEmpty /\ dirExists /\ Glob(entries) # {}

\* C5: a connection is attempted only after the configuration was loaded and
\* when the connection string is set and non-empty, the directory exists and
\* it holds a matching file; a run in which one of these checks fails
\* attempts no connection and returns 1.
C5_ConnectOnlyAfterPrechecks ==
    /\ (connects > 0 \/ pc = "connect") =>
           (PrechecksPass /\ env = LoadLines(env0, dotenv.lines))
    /\ (pc = "done" /\ ~PrechecksPass) => (connects = 0 /\ ret = <<1>>)

C5_Witness ==
    /\ pc = "done"
    /\ DATABASE_URL \in DOMAIN env
    /\ env[DATABASE_URL] = <<>>
    /\ dirExists
    /\ Glob(entries) # {}
    /\ connects = 0
    /\ ret = <<1>>

\* line i of the .env file is an entry: not blank, not a comment, with "="
IsEntry(i) == ~Skipped(Raw(dotenv.lines[i]))

EntryKey(i) == ParseKey(Raw(dotenv.lines[i]))

\* C6: load_dotenv never changes the value of a key that was in the
\* environment before loading, an empty value included.
C6_NoOverwrite ==
    \A k \in DOMAIN env0 : k \in DOMAIN env /\ env[k] = env0[k]

C6_Witness ==
    /\ pc = "getenv"
    /\ DATABASE_URL \in DOMAIN env0
    /\ env0[DATABASE_URL] = <<>>
    /\ \E i \in 1..Len(dotenv.lines) :
           /\ IsEntry(i)
           /\ EntryKey(i) = DATABASE_URL
           /\ ParseValue(Raw(dotenv.lines[i])) # <<>>

\* C7: every run of main() ends by returning 0 or 1, never by an exception
\* that nothing caught.
C7_NoUncaughtException ==
    /\ pc # "uncaught"
    /\ (pc = "done") => (ret \in {<<0>>, <<1>>})

Quotes == {"'", "\""}

\* one layer of one matching pair of quotes removed, anything else kept
StripOnePair(v) ==
    IF Len(v) >= 2 /\ v[1] \in Quotes /\ v[Len(v)] = v[1]
    THEN SubSeq(v, 2, Len(v) - 1)
    ELSE v

\* C8: the stored value is the trimmed value with exactly one enclosing pair
\* of matching quotes removed, and unchanged when it is not so enclosed.
C8_OneQuotePair ==
    (pc = "getenv") =>
        \A i \in 1..Len(dotenv.lines) :
            (/\ IsEntry(i)
             /\ EntryKey(i) # <<>>
             /\ EntryKey(i) \notin DOMAIN env0
             /\ \A j \in 1..(i - 1) : ~(IsEntry(j) /\ EntryKey(j) = EntryKey(i)))
            => env[EntryKey(i)] = StripOnePair(TrimmedValue(Raw(dotenv.lines[i])))

RunningLines == SelectSeq(out, LAMBDA l : l.kind = "Running")

StatusLines == SelectSeq(out, LAMBDA l : l.kind # "Running")

\* C9: the "Running" lines name a prefix of the sorted file list, each is
\* printed before its file is executed, every run ends with exactly one
\* status line, and after a failed execute the last name printed is the
\* file that failed.
C9_OutputLines ==
    /\ \A i \in 1..Len(RunningLines) : RunningLines[i].name = files[i]
    /\ Len(executed) <= Len(RunningLines)
    /\ Len(RunningLines) <= Len(executed) + 1
    /\ \A i \in 1..Len(executed) : executed[i] = RunningLines[i].name
    /\ (failedAt # 0) => (Len(RunningLines) = failedAt)
    /\ Len(StatusLines) = (IF Terminated THEN 1 ELSE 0)
    /\ (Terminated /\ out # <<>>) => (out[Len(out)].kind # "Running")

\* C10: at most one connection is open at a time, and once the connection's
\* scope is left, by return or by an error, no connection or cursor is open.
C10_ConnectionReleased ==
    /\ opened <= 1
    /\ connects <= 1
    /\ (cur = "open") => (conn = "open")
    /\ (conn = "open") <=> (opened = 1)
    /\ (pc \in {"except", "success", "done"}) =>
           (opened = 0 /\ conn # "open" /\ cur # "open")

C10_Witness ==
    /\ pc = "done"
    /\ raised \in {"read_text", "execute", "commit"}
    /\ conn = "closed"
    /\ cur = "closed"
    /\ opened = 0

====
